---- MODULE Spec2Model ----
(***************************************************************************)
(* Model of api/feedback.js: the multipart decoder (parseMultipartForm),   *)
(* the speech metrics analyzer (analyzeMetrics) and the request handler.   *)
(*                                                                         *)
(* Conventions.                                                            *)
(*  - A JavaScript string is the sequence of its character codes; a        *)
(*    Buffer is the sequence of its bytes.                                 *)
(*  - A JavaScript number is a record [k, v]: k = "num" for a finite value *)
(*    v, "nan", "inf", "ninf" for NaN, +Infinity, -Infinity, and           *)
(*    "undefined" for the value undefined (v = 0 for the non-finite ones). *)
(*  - Times (word start/end, duration, pauses) are counted in              *)
(*    milliseconds, so the source's 0.2 s threshold is 200.  Values        *)
(*    printed by toFixed(2) are counted in hundredths of a second and      *)
(*    carry k = "fixed".                                                   *)
(*  - Arithmetic is exact: the rounding of binary floating point in        *)
(*    start - end, n * 0.3 and n / duration * 60 is not modelled.          *)
(*  - The response headers and the prompts sent to the collaborators are   *)
(*    not part of the state; a collaborator call is recorded by its name.  *)
(***************************************************************************)
EXTENDS Integers, Sequences, FiniteSets, TLC

VARIABLES
    mPc,        \* analyzer harness: "input" before the call, "done" after
    mWords,     \* analyzer harness: the words argument
    mDuration,  \* analyzer harness: the duration argument
    mResult,    \* analyzer harness: what analyzeMetrics returned or raised
    pPc,        \* decoder harness: "input" before the call, "done" after
    pFields,    \* decoder harness: the field map that was encoded
    pFile,      \* decoder harness: the file that was encoded
    pResult,    \* decoder harness: what parseMultipartForm resolved with
    pc,         \* handler: "start", "transcribing", "generating", "done"
    req,        \* handler: the request (method, headers, raw body, body)
    apiKeySet,  \* handler: process.env.OPENAI_API_KEY is set
    fields,     \* handler: fields of the decoded form
    files,      \* handler: files of the decoded form
    transcription, \* handler: what the transcription collaborator returned
    duration,   \* handler: the duration handed to analyzeMetrics
    metrics,    \* handler: what analyzeMetrics returned
    genContent, \* handler: the message content the generation call returned
    status,     \* handler: HTTP status of the response, 0 before it is sent
    resBody,    \* handler: body of the response
    calls,      \* history: the collaborator calls made, in order
    failed      \* history: the collaborator call that failed, if any

mvars == <<mPc, mWords, mDuration, mResult>>

pvars == <<pPc, pFields, pFile, pResult>>

hvars ==
    <<pc, req, apiKeySet, fields, files, transcription, duration, metrics,
      genContent, status, resBody, calls, failed>>

vars ==
    <<mPc, mWords, mDuration, mResult, pPc, pFields, pFile, pResult,
      pc, req, apiKeySet, fields, files, transcription, duration, metrics,
      genContent, status, resBody, calls, failed>>

----------------------------------------------------------------------------
(* JavaScript numbers *)

Num(v) == [k |-> "num", v |-> v]
NaN == [k |-> "nan", v |-> 0]
PosInf == [k |-> "inf", v |-> 0]
NegInf == [k |-> "ninf", v |-> 0]
Undef == [k |-> "undefined", v |-> 0]
Fixed2(v) == [k |-> "fixed", v |-> v]

IsNum(x) == x.k = "num"

\* a - b on JavaScript numbers whose finite values share a unit
JsSub(a, b) ==
    IF IsNum(a) /\ IsNum(b) THEN Num(a.v - b.v) ELSE NaN

\* a > c for a JavaScript number a and a finite constant c
JsGreater(a, c) ==
    CASE a.k = "num" -> a.v > c
      [] a.k = "inf" -> TRUE
      [] OTHER -> FALSE

\* Math.round(p / q) for integers p and q > 0: ties go towards +Infinity
RoundDiv(p, q) == (2 * p + q) \div (2 * q)

----------------------------------------------------------------------------
(* Strings *)

IsWhite(c) == c \in {9, 10, 11, 12, 13, 32}

LowerChar(c) == IF c >= 65 /\ c <= 90 THEN c + 32 ELSE c

ToLowerCase(s) == [i \in 1..Len(s) |-> LowerChar(s[i])]

RECURSIVE TrimStart(_)
TrimStart(s) ==
    IF s /= <<>> /\ IsWhite(Head(s)) THEN TrimStart(Tail(s)) ELSE s

RECURSIVE TrimEnd(_)
TrimEnd(s) ==
    IF s /= <<>> /\ IsWhite(s[Len(s)])
    THEN TrimEnd(SubSeq(s, 1, Len(s) - 1))
    ELSE s

Trim(s) == TrimEnd(TrimStart(s))

\* pat occurs in s at the 0-based index i
StartsAt(s, pat, i) ==
    /\ i >= 0
    /\ i + Len(pat) <= Len(s)
    /\ \A j \in 1..Len(pat) : s[i + j] = pat[j]

Includes(s, pat) == \E i \in 0..Len(s) : StartsAt(s, pat, i)

\* String.prototype.indexOf: 0-based, -1 when pat does not occur
IndexOf(s, pat) ==
    IF Includes(s, pat)
    THEN CHOOSE i \in 0..Len(s) :
            /\ StartsAt(s, pat, i)
            /\ \A j \in 0..(i - 1) : ~StartsAt(s, pat, j)
    ELSE -1

\* String.prototype.lastIndexOf
LastIndexOf(s, pat) ==
    IF Includes(s, pat)
    THEN CHOOSE i \in 0..Len(s) :
            /\ StartsAt(s, pat, i)
            /\ \A j \in (i + 1)..Len(s) : ~StartsAt(s, pat, j)
    ELSE -1

Clamp(i, n) == IF i < 0 THEN 0 ELSE IF i > n THEN n ELSE i

\* String.prototype.substring: both indexes clamped to [0, length] and
\* swapped when the first exceeds the second
Substring(s, a, b) ==
    LET x == Clamp(a, Len(s))
        y == Clamp(b, Len(s))
        lo == IF x <= y THEN x ELSE y
        hi == IF x <= y THEN y ELSE x
    IN  SubSeq(s, lo + 1, hi)

\* String.prototype.split with a non-empty separator
RECURSIVE Split(_, _)
Split(s, sep) ==
    LET i == IndexOf(s, sep)
    IN  IF i = -1 THEN <<s>>
        ELSE <<SubSeq(s, 1, i)>>
             \o Split(SubSeq(s, i + Len(sep) + 1, Len(s)), sep)

----------------------------------------------------------------------------
(* analyzeMetrics *)

\* 'um', 'uh', 'like', 'you know', 'so', 'basically', 'actually', 'literally'
fillerWords ==
    { <<117, 109>>,
      <<117, 104>>,
      <<108, 105, 107, 101>>,
      <<121, 111, 117, 32, 107, 110, 111, 119>>,
      <<115, 111>>,
      <<98, 97, 115, 105, 99, 97, 108, 108, 121>>,
      <<97, 99, 116, 117, 97, 108, 108, 121>>,
      <<108, 105, 116, 101, 114, 97, 108, 108, 121>> }

PauseThreshold == 200

RushedWpm == 150

\* a word as the transcription collaborator reports it; hasWord = FALSE
\* when the entry carries no `word` property
TimedWord(hasWord, word, start, end) ==
    [hasWord |-> hasWord, word |-> word, start |-> start, end |-> end]

RECURSIVE FillerCount(_)
FillerCount(words) ==
    IF words = <<>> THEN 0
    ELSE (IF Trim(ToLowerCase(Head(words).word)) \in fillerWords THEN 1 ELSE 0)
         + FillerCount(Tail(words))

IsPauseAtLeast(pause) ==
    pause.k = "inf" \/ (pause.k = "num" /\ pause.v >= PauseThreshold)

\* pause > 0.2
IsPause(pause) == JsGreater(pause, PauseThreshold)

\* the pauses array: the gaps above the threshold, in order
RECURSIVE PausesFrom(_, _)
PausesFrom(words, i) ==
    IF i > Len(words) THEN <<>>
    ELSE LET pause == JsSub(words[i].start, words[i - 1].end)
         IN  (IF IsPause(pause) THEN <<pause.v>> ELSE <<>>)
             \o PausesFrom(words, i + 1)

Pauses(words) == PausesFrom(words, 2)

RECURSIVE SumSeq(_)
SumSeq(s) == IF s = <<>> THEN 0 ELSE Head(s) + SumSeq(Tail(s))

RECURSIVE MaxSeq(_)
MaxSeq(s) ==
    IF Len(s) = 1 THEN Head(s)
    ELSE LET m == MaxSeq(Tail(s)) IN IF Head(s) > m THEN Head(s) ELSE m

\* Math.round((n / duration) * 60) for n > 0 words
WordsPerMinute(n, seconds) ==
    CASE seconds.k = "num" /\ seconds.v > 0 ->
            Num(RoundDiv(60000 * n, seconds.v))
      [] seconds.k = "num" /\ seconds.v = 0 -> PosInf
      [] seconds.k = "num" /\ seconds.v < 0 ->
            Num((-(120000 * n) + (-seconds.v)) \div (2 * (-seconds.v)))
      [] seconds.k \in {"inf", "ninf"} -> Num(0)
      [] OTHER -> NaN

PacingVariation(pauseCount, wordCount, wordsPerMinute) ==
    IF 10 * pauseCount > 3 * wordCount THEN "halting"
    ELSE IF 10 * pauseCount < wordCount /\ JsGreater(wordsPerMinute, RushedWpm)
         THEN "rushed"
         ELSE "steady"

\* the value of an absent property is undefined
EmptyMetrics ==
    [ kind |-> "ok",
      wordsPerMinute |-> Num(0),
      averagePauseDuration |-> Num(0),
      longestPause |-> Num(0),
      fillerWordCount |-> Num(0),
      pauseCount |-> Undef,
      pacingVariation |-> "unknown" ]

\* word.word.toLowerCase() on an entry without a `word` raises TypeError
ThrownMetrics ==
    [ kind |-> "TypeError",
      wordsPerMinute |-> Undef,
      averagePauseDuration |-> Undef,
      longestPause |-> Undef,
      fillerWordCount |-> Undef,
      pauseCount |-> Undef,
      pacingVariation |-> "none" ]

\* words is [present, list]: present = FALSE for an absent (undefined or
\* null) argument
analyzeMetrics(words, seconds) ==
    IF ~words.present \/ words.list = <<>> THEN EmptyMetrics
    ELSE IF \E i \in 1..Len(words.list) : ~words.list[i].hasWord
    THEN ThrownMetrics
    ELSE LET w == words.list
             pauses == Pauses(w)
             wordsPerMinute == WordsPerMinute(Len(w), seconds)
         IN  [ kind |-> "ok",
               wordsPerMinute |-> wordsPerMinute,
               averagePauseDuration |->
                   IF Len(pauses) > 0
                   THEN Fixed2(RoundDiv(SumSeq(pauses), 10 * Len(pauses)))
                   ELSE Num(0),
               longestPause |->
                   IF Len(pauses) > 0
                   THEN Fixed2(RoundDiv(MaxSeq(pauses), 10))
                   ELSE Num(0),
               fillerWordCount |-> Num(FillerCount(w)),
               pauseCount |-> Num(Len(pauses)),
               pacingVariation |->
                   PacingVariation(Len(pauses), Len(w), wordsPerMinute) ]

----------------------------------------------------------------------------
(* parseMultipartForm *)

\* 'boundary=', '--', 'Content-Disposition', CR LF CR LF, CR LF
StrBoundaryEq == <<98, 111, 117, 110, 100, 97, 114, 121, 61>>
StrDashDash == <<45, 45>>
StrContentDisposition ==
    <<67, 111, 110, 116, 101, 110, 116, 45, 68, 105, 115, 112, 111, 115,
      105, 116, 105, 111, 110>>
StrBlankLine == <<13, 10, 13, 10>>
StrCRLF == <<13, 10>>
\* 'name="' and 'filename="'
StrNameEqQuote == <<110, 97, 109, 101, 61, 34>>
StrFilenameEqQuote == <<102, 105, 108, 101, 110, 97, 109, 101, 61, 34>>
Quote == 34

\* buffer.toString('binary'): byte n becomes the character with code n
BinaryToString(buffer) == [i \in 1..Len(buffer) |-> buffer[i]]

\* Buffer.from(content, 'binary'): each character keeps its low byte
BufferFromBinary(content) == [i \in 1..Len(content) |-> content[i] % 256]

\* part.match(/prefix([^"]+)"/) for a prefix ending in a quote: the
\* leftmost place where prefix is followed by one or more characters
\* other than a quote and then a quote; group is the capture
MatchQuoted(part, prefix) ==
    LET Ok(i) ==
            /\ StartsAt(part, prefix, i)
            /\ i + Len(prefix) < Len(part)
            /\ part[i + Len(prefix) + 1] /= Quote
            /\ \E j \in (i + Len(prefix) + 2)..Len(part) : part[j] = Quote
    IN  IF \E i \in 0..Len(part) : Ok(i)
        THEN LET i == CHOOSE i \in 0..Len(part) :
                        Ok(i) /\ \A h \in 0..(i - 1) : ~Ok(h)
                 q == i + Len(prefix)
                 e == CHOOSE j \in (q + 2)..Len(part) :
                        /\ part[j] = Quote
                        /\ \A h \in (q + 2)..(j - 1) : part[h] /= Quote
             IN  [found |-> TRUE, group |-> SubSeq(part, q + 1, e - 1)]
        ELSE [found |-> FALSE, group |-> <<>>]

\* obj[key] = value
SetKey(obj, key, value) ==
    [k \in DOMAIN obj \cup {key} |-> IF k = key THEN value ELSE obj[k]]

EmptyObject == [k \in {} |-> <<>>]

\* the body of the loop over the parts, applied to one part
ParsePart(result, part) ==
    IF ~Includes(part, StrContentDisposition) THEN result
    ELSE LET nameMatch == MatchQuoted(part, StrNameEqQuote)
             filenameMatch == MatchQuoted(part, StrFilenameEqQuote)
         IN  IF ~nameMatch.found THEN result
             ELSE LET name == nameMatch.group
                      contentStart == IndexOf(part, StrBlankLine) + 4
                      contentEnd == LastIndexOf(part, StrCRLF)
                      content == Substring(part, contentStart, contentEnd)
                  IN  IF filenameMatch.found
                      THEN [result EXCEPT !.files =
                               SetKey(@, name,
                                      [filename |-> filenameMatch.group,
                                       data |-> BufferFromBinary(content)])]
                      ELSE [result EXCEPT !.fields = SetKey(@, name, content)]

RECURSIVE ParseParts(_, _)
ParseParts(result, parts) ==
    IF parts = <<>> THEN result
    ELSE ParseParts(ParsePart(result, Head(parts)), Tail(parts))

\* req.headers['content-type']?.split('boundary=')[1]; contentType is
\* [present, s] and the result is [defined, s]
BoundaryOf(contentType) ==
    IF ~contentType.present THEN [defined |-> FALSE, s |-> <<>>]
    ELSE LET pieces == Split(contentType.s, StrBoundaryEq)
         IN  IF Len(pieces) < 2 THEN [defined |-> FALSE, s |-> <<>>]
             ELSE [defined |-> TRUE, s |-> pieces[2]]

\* resolves with {fields, files} (ok = TRUE) or rejects with
\* Error('No boundary found') (ok = FALSE)
parseMultipartForm(buffer, contentType) ==
    LET boundary == BoundaryOf(contentType)
    IN  IF ~boundary.defined \/ boundary.s = <<>>
        THEN [ok |-> FALSE, fields |-> EmptyObject, files |-> EmptyObject]
        ELSE ParseParts(
                [ok |-> TRUE, fields |-> EmptyObject, files |-> EmptyObject],
                Split(BinaryToString(buffer), StrDashDash \o boundary.s))

----------------------------------------------------------------------------
(* JSON.parse, for texts without string escapes and without exponents.    *)
(* A JSON value is a record [t, n, s, kids]: t is its type; n the value   *)
(* of a number in thousandths, or 1 for true; s the characters of a       *)
(* string; kids the members [key, val] of an object or the elements       *)
(* [key = <<>>, val] of an array, in order.                               *)

JsonNull == [t |-> "null", n |-> 0, s |-> <<>>, kids |-> <<>>]
JsonBool(b) == [t |-> "bool", n |-> IF b THEN 1 ELSE 0, s |-> <<>>, kids |-> <<>>]
JsonNumber(n) == [t |-> "number", n |-> n, s |-> <<>>, kids |-> <<>>]
JsonString(str) == [t |-> "string", n |-> 0, s |-> str, kids |-> <<>>]
JsonArray(kids) == [t |-> "array", n |-> 0, s |-> <<>>, kids |-> kids]
JsonObject(kids) == [t |-> "object", n |-> 0, s |-> <<>>, kids |-> kids]
Member(key, val) == [key |-> key, val |-> val]

JsonFail == [ok |-> FALSE, val |-> JsonNull, next |-> 0]
JsonOk(val, next) == [ok |-> TRUE, val |-> val, next |-> next]

IsJsonWhite(c) == c \in {9, 10, 13, 32}
IsDigit(c) == c >= 48 /\ c <= 57

\* the first 1-based index at or after i that holds no JSON whitespace
RECURSIVE SkipWhite(_, _)
SkipWhite(s, i) ==
    IF i <= Len(s) /\ IsJsonWhite(s[i]) THEN SkipWhite(s, i + 1) ELSE i

\* the first index at or after i that holds no digit
RECURSIVE SkipDigits(_, _)
SkipDigits(s, i) ==
    IF i <= Len(s) /\ IsDigit(s[i]) THEN SkipDigits(s, i + 1) ELSE i

\* the value of the digits s[i..j-1]
RECURSIVE DigitsValue(_, _, _)
DigitsValue(s, i, j) ==
    IF i >= j THEN 0
    ELSE DigitsValue(s, i, j - 1) * 10 + (s[j - 1] - 48)

\* the fraction digits s[i..j-1] in thousandths (digits past the third
\* are dropped)
FractionValue(s, i, j) ==
    LET d(k) == IF i + k < j THEN s[i + k] - 48 ELSE 0
    IN  100 * d(0) + 10 * d(1) + d(2)

\* 'null', 'true', 'false'
StrNull == <<110, 117, 108, 108>>
StrTrue == <<116, 114, 117, 101>>
StrFalse == <<102, 97, 108, 115, 101>>

ParseJsonNumber(s, i) ==
    LET neg == s[i] = 45
        a == IF neg THEN i + 1 ELSE i
        b == SkipDigits(s, a)
        hasFrac == b <= Len(s) /\ s[b] = 46
        c == IF hasFrac THEN SkipDigits(s, b + 1) ELSE b
        whole == DigitsValue(s, a, b)
        frac == IF hasFrac THEN FractionValue(s, b + 1, c) ELSE 0
        mag == 1000 * whole + frac
    IN  IF b = a THEN JsonFail
        ELSE IF b - a > 1 /\ s[a] = 48 THEN JsonFail
        ELSE IF hasFrac /\ c = b + 1 THEN JsonFail
        ELSE JsonOk(JsonNumber(IF neg THEN -mag ELSE mag), c)

\* s[i] is the opening quote
ParseJsonString(s, i) ==
    IF \E j \in (i + 1)..Len(s) : s[j] = Quote
    THEN LET e == CHOOSE j \in (i + 1)..Len(s) :
                    /\ s[j] = Quote
                    /\ \A h \in (i + 1)..(j - 1) : s[h] /= Quote
         IN  IF \E h \in (i + 1)..(e - 1) : s[h] < 32 \/ s[h] = 92
             THEN JsonFail
             ELSE JsonOk(JsonString(SubSeq(s, i + 1, e - 1)), e + 1)
    ELSE JsonFail

RECURSIVE ParseJsonValue(_, _)
RECURSIVE ParseJsonMembers(_, _, _)
RECURSIVE ParseJsonElements(_, _, _)

\* a value starting at or after index i, leading whitespace skipped
ParseJsonValue(s, i) ==
    LET a == SkipWhite(s, i)
    IN  IF a > Len(s) THEN JsonFail
        ELSE IF s[a] = 123 THEN
            LET b == SkipWhite(s, a + 1)
            IN  IF b <= Len(s) /\ s[b] = 125
                THEN JsonOk(JsonObject(<<>>), b + 1)
                ELSE ParseJsonMembers(s, b, <<>>)
        ELSE IF s[a] = 91 THEN
            LET b == SkipWhite(s, a + 1)
            IN  IF b <= Len(s) /\ s[b] = 93
                THEN JsonOk(JsonArray(<<>>), b + 1)
                ELSE ParseJsonElements(s, b, <<>>)
        ELSE IF s[a] = Quote THEN ParseJsonString(s, a)
        ELSE IF s[a] = 45 \/ IsDigit(s[a]) THEN ParseJsonNumber(s, a)
        ELSE IF StartsAt(s, StrNull, a - 1) THEN JsonOk(JsonNull, a + 4)
        ELSE IF StartsAt(s, StrTrue, a - 1) THEN JsonOk(JsonBool(TRUE), a + 4)
        ELSE IF StartsAt(s, StrFalse, a - 1) THEN JsonOk(JsonBool(FALSE), a + 5)
        ELSE JsonFail

\* the members of an object from index i on, up to the closing brace
ParseJsonMembers(s, i, acc) ==
    LET a == SkipWhite(s, i)
    IN  IF a > Len(s) \/ s[a] /= Quote THEN JsonFail
        ELSE LET k == ParseJsonString(s, a)
                 b == SkipWhite(s, k.next)
             IN  IF ~k.ok \/ b > Len(s) \/ s[b] /= 58 THEN JsonFail
                 ELSE LET v == ParseJsonValue(s, b + 1)
                          c == SkipWhite(s, v.next)
                          kids == Append(acc, Member(k.val.s, v.val))
                      IN  IF ~v.ok \/ c > Len(s) THEN JsonFail
                          ELSE IF s[c] = 125 THEN JsonOk(JsonObject(kids), c + 1)
                          ELSE IF s[c] = 44 THEN ParseJsonMembers(s, c + 1, kids)
                          ELSE JsonFail

\* the elements of an array from index i on, up to the closing bracket
ParseJsonElements(s, i, acc) ==
    LET v == ParseJsonValue(s, i)
        c == SkipWhite(s, v.next)
        kids == Append(acc, Member(<<>>, v.val))
    IN  IF ~v.ok \/ c > Len(s) THEN JsonFail
        ELSE IF s[c] = 93 THEN JsonOk(JsonArray(kids), c + 1)
        ELSE IF s[c] = 44 THEN ParseJsonElements(s, c + 1, kids)
        ELSE JsonFail

\* JSON.parse(text): [ok, val]; ok = FALSE when it raises SyntaxError
JsonParse(text) ==
    LET v == ParseJsonValue(text, 1)
    IN  IF v.ok /\ SkipWhite(text, v.next) > Len(text)
        THEN [ok |-> TRUE, val |-> v.val]
        ELSE [ok |-> FALSE, val |-> JsonNull]

----------------------------------------------------------------------------
(* handler *)

\* 'multipart/form-data'
StrMultipart ==
    <<109, 117, 108, 116, 105, 112, 97, 114, 116, 47, 102, 111, 114, 109,
      45, 100, 97, 116, 97>>
\* 'audio', 'duration', 'question', 'part'
StrAudio == <<97, 117, 100, 105, 111>>
StrDuration == <<100, 117, 114, 97, 116, 105, 111, 110>>
StrQuestion == <<113, 117, 101, 115, 116, 105, 111, 110>>
StrPart == <<112, 97, 114, 116>>
\* 'IELTS Speaking Question'
StrDefaultQuestion ==
    <<73, 69, 76, 84, 83, 32, 83, 112, 101, 97, 107, 105, 110, 103, 32, 81,
      117, 101, 115, 116, 105, 111, 110>>
\* 'General IELTS Question'
StrGeneralQuestion ==
    <<71, 101, 110, 101, 114, 97, 108, 32, 73, 69, 76, 84, 83, 32, 81, 117,
      101, 115, 116, 105, 111, 110>>
\* '1'
StrOne == <<49>>
\* '{}'
StrEmptyObject == <<123, 125>>
\* 'Infinity'
StrInfinity == <<73, 110, 102, 105, 110, 105, 116, 121>>
\* 'Unable to analyze response. Please try again.'
StrSummaryText ==
    <<85, 110, 97, 98, 108, 101, 32, 116, 111, 32, 97, 110, 97, 108, 121,
      122, 101, 32, 114, 101, 115, 112, 111, 110, 115, 101, 46, 32, 80, 108,
      101, 97, 115, 101, 32, 116, 114, 121, 32, 97, 103, 97, 105, 110, 46>>
\* the keys of the band-score document
StrOverallBand == <<111, 118, 101, 114, 97, 108, 108, 66, 97, 110, 100>>
StrScores == <<115, 99, 111, 114, 101, 115>>
StrFeedback == <<102, 101, 101, 100, 98, 97, 99, 107>>
StrFluencyCoherence ==
    <<102, 108, 117, 101, 110, 99, 121, 67, 111, 104, 101, 114, 101, 110,
      99, 101>>
StrLexicalResource ==
    <<108, 101, 120, 105, 99, 97, 108, 82, 101, 115, 111, 117, 114, 99, 101>>
StrGrammaticalRange ==
    <<103, 114, 97, 109, 109, 97, 116, 105, 99, 97, 108, 82, 97, 110, 103,
      101>>
StrPronunciation ==
    <<112, 114, 111, 110, 117, 110, 99, 105, 97, 116, 105, 111, 110>>
StrSummary == <<115, 117, 109, 109, 97, 114, 121>>
StrError == <<101, 114, 114, 111, 114>>

\* parseFloat(str) in thousandths, for texts without an exponent: leading
\* whitespace, a sign, then the longest prefix digits[.digits] or
\* Infinity; NaN when there is none
ParseFloat(str) ==
    LET t == TrimStart(str)
        signed == t /= <<>> /\ t[1] \in {43, 45}
        neg == t /= <<>> /\ t[1] = 45
        b == IF signed THEN 2 ELSE 1
        c == SkipDigits(t, b)
        hasDot == c <= Len(t) /\ t[c] = 46
        d == IF hasDot THEN SkipDigits(t, c + 1) ELSE c
        fracLen == IF hasDot THEN d - (c + 1) ELSE 0
        mag == 1000 * DigitsValue(t, b, c)
               + (IF hasDot THEN FractionValue(t, c + 1, d) ELSE 0)
    IN  IF StartsAt(t, StrInfinity, b - 1)
        THEN (IF neg THEN NegInf ELSE PosInf)
        ELSE IF c - b = 0 /\ fracLen = 0 THEN NaN
        ELSE Num(IF neg THEN -mag ELSE mag)

\* obj[key] || fallback, for an object of strings
StringOr(obj, key, fallback) ==
    IF key \in DOMAIN obj /\ obj[key] /= <<>> THEN obj[key] ELSE fallback

\* fields.duration ? parseFloat(fields.duration) : transcription.duration || 0
SelectDuration(formFields, reported) ==
    IF StrDuration \in DOMAIN formFields /\ formFields[StrDuration] /= <<>>
    THEN ParseFloat(formFields[StrDuration])
    ELSE IF reported.k \in {"inf", "ninf"} \/ (IsNum(reported) /\ reported.v /= 0)
         THEN reported
         ELSE Num(0)

\* the default structure substituted when JSON.parse raises
FallbackDocument ==
    JsonObject(<<
        Member(StrOverallBand, JsonNumber(0)),
        Member(StrScores, JsonObject(<<
            Member(StrFluencyCoherence, JsonNumber(0)),
            Member(StrLexicalResource, JsonNumber(0)),
            Member(StrGrammaticalRange, JsonNumber(0)),
            Member(StrPronunciation, JsonNumber(0)) >>)),
        Member(StrFeedback, JsonObject(<<
            Member(StrSummary, JsonString(StrSummaryText)),
            Member(StrError, JsonBool(TRUE)) >>)) >>)

\* completion.choices?.[0]?.message?.content?.trim() || '{}'; content is
\* [present, s]
ResponseContent(content) ==
    IF ~content.present \/ Trim(content.s) = <<>>
    THEN StrEmptyObject
    ELSE Trim(content.s)

\* try { JSON.parse(responseContent) } catch { the default structure }
IeltsResult(responseContent) ==
    LET parsed == JsonParse(responseContent)
    IN  IF parsed.ok THEN parsed.val ELSE FallbackDocument

Body(kind, error, ieltsScores, transcript, question, part, hasMetrics) ==
    [ kind |-> kind, error |-> error, ieltsScores |-> ieltsScores,
      transcript |-> transcript, question |-> question, part |-> part,
      hasMetrics |-> hasMetrics ]

NoBody == Body("none", "", JsonNull, <<>>, <<>>, <<>>, FALSE)
EndBody == Body("end", "", JsonNull, <<>>, <<>>, <<>>, FALSE)
ErrorBody(error) == Body("error", error, JsonNull, <<>>, <<>>, <<>>, FALSE)

\* an error is [status]: the status it carries, 0 when it carries none
ErrorWith(code) == [status |-> code]
PlainError == [status |-> 0]

CatchStatusAlways500(error) == 500

\* the status the catch block answers with
CatchStatus(error) == IF error.status /= 0 THEN error.status ELSE 500

\* the body the catch block answers with
CatchBody(error, keySet) ==
    IF error.status /= 0 THEN ErrorBody("OpenAI API error")
    ELSE IF ~keySet THEN ErrorBody("OpenAI API key not configured")
    ELSE ErrorBody("Failed to generate feedback")

ContentTypeOf(request) ==
    IF request.contentType.present THEN request.contentType.s ELSE <<>>

IsMultipart(request) == Includes(ContentTypeOf(request), StrMultipart)

\* res.status(code) followed by .end() or .json(body)
Respond(code, body) ==
    /\ pc' = "done"
    /\ status' = code
    /\ resBody' = body

\* the catch block
Catch(error) == Respond(CatchStatus(error), CatchBody(error, apiKeySet))

\* a collaborator call goes out and the handler awaits it
Dispatch(collaborator, awaiting) ==
    /\ calls' = Append(calls, collaborator)
    /\ pc' = awaiting
    /\ UNCHANGED <<status, resBody>>

\* !text || typeof text !== 'string' || !text.trim(), text being
\* [kind, s] with kind "absent", "string" or "other"
TextMissing(request) ==
    \/ ~request.body.present
    \/ request.body.text.kind /= "string"
    \/ Trim(request.body.text.s) = <<>>

\* the decoded form, or a rejection when the request stream fails or the
\* header carries no boundary
DecodedForm(request) ==
    IF request.streamError
    THEN [ok |-> FALSE, fields |-> EmptyObject, files |-> EmptyObject]
    ELSE parseMultipartForm(request.buffer, request.contentType)

\* the handler from its entry to its first await on a collaborator
Receive ==
    /\ pc = "start"
    /\ IF req.method = "OPTIONS" THEN
            /\ Respond(200, EndBody)
            /\ UNCHANGED <<fields, files, calls>>
       ELSE IF req.method /= "POST" THEN
            /\ Respond(405, ErrorBody("Method not allowed"))
            /\ UNCHANGED <<fields, files, calls>>
       ELSE IF IsMultipart(req) THEN
            LET form == DecodedForm(req)
            IN  IF ~form.ok THEN
                    /\ Catch(PlainError)
                    /\ UNCHANGED <<fields, files, calls>>
                ELSE IF StrAudio \notin DOMAIN form.files THEN
                    /\ Respond(400, ErrorBody("No audio file provided"))
                    /\ fields' = form.fields
                    /\ files' = form.files
                    /\ UNCHANGED calls
                ELSE
                    /\ fields' = form.fields
                    /\ files' = form.files
                    /\ Dispatch("transcription", "transcribing")
       ELSE IF TextMissing(req) THEN
            /\ Respond(400, ErrorBody("Missing transcript text or audio file"))
            /\ UNCHANGED <<fields, files, calls>>
       ELSE
            /\ Dispatch("generation", "generating")
            /\ UNCHANGED <<fields, files>>
    /\ UNCHANGED <<req, apiKeySet, transcription, duration, metrics,
                   genContent, failed>>
    /\ UNCHANGED <<mvars, pvars>>

\* the transcription call returns t = [text, words, duration]; the handler
\* runs up to its await on the generation call
TranscriptionResolves(t) ==
    /\ pc = "transcribing"
    /\ LET words == IF t.words.present THEN t.words.list ELSE <<>>
           d == SelectDuration(fields, t.duration)
           m == analyzeMetrics([present |-> TRUE, list |-> words], d)
       IN  /\ transcription' =
                [returned |-> TRUE, text |-> t.text, words |-> words,
                 duration |-> t.duration]
           /\ duration' = d
           /\ metrics' = m
           /\ IF m.kind = "TypeError"
              THEN Catch(PlainError) /\ UNCHANGED calls
              ELSE Dispatch("generation", "generating")
    /\ UNCHANGED <<req, apiKeySet, fields, files, genContent, failed>>
    /\ UNCHANGED <<mvars, pvars>>

\* a collaborator call raises error: the catch block answers
CollaboratorRejects(collaborator, awaiting, error) ==
    /\ pc = awaiting
    /\ failed' = [happened |-> TRUE, by |-> collaborator, code |-> error.status]
    /\ Catch(error)
    /\ UNCHANGED <<req, apiKeySet, fields, files, transcription, duration,
                   metrics, genContent, calls>>
    /\ UNCHANGED <<mvars, pvars>>

TranscriptionRejects(error) ==
    CollaboratorRejects("transcription", "transcribing", error)

GenerationRejects(error) ==
    CollaboratorRejects("generation", "generating", error)

\* the generation call returns a completion whose message content is
\* content; the handler answers
GenerationResolves(content) ==
    /\ pc = "generating"
    /\ genContent' = [returned |-> TRUE, present |-> content.present,
                      s |-> content.s]
    /\ LET ieltsResult == IeltsResult(ResponseContent(content))
       IN  IF IsMultipart(req)
           THEN Respond(200,
                    Body("feedback", "", ieltsResult, transcription.text,
                         StringOr(fields, StrQuestion, StrDefaultQuestion),
                         StringOr(fields, StrPart, StrOne), TRUE))
           ELSE Respond(200,
                    Body("feedback", "", ieltsResult, Trim(req.body.text.s),
                         StringOr(req.body.strings, StrQuestion,
                                  StrGeneralQuestion),
                         StringOr(req.body.strings, StrPart, StrOne), FALSE))
    /\ UNCHANGED <<req, apiKeySet, fields, files, transcription, duration,
                   metrics, calls, failed>>
    /\ UNCHANGED <<mvars, pvars>>

----------------------------------------------------------------------------
(* The client's side of multipart/form-data (RFC 7578) *)

\* 'Content-Disposition: form-data; name="'
StrDispositionName ==
    <<67, 111, 110, 116, 101, 110, 116, 45, 68, 105, 115, 112, 111, 115,
      105, 116, 105, 111, 110, 58, 32, 102, 111, 114, 109, 45, 100, 97,
      116, 97, 59, 32, 110, 97, 109, 101, 61, 34>>
\* '"; filename="'
StrThenFilename == <<34, 59, 32, 102, 105, 108, 101, 110, 97, 109, 101, 61, 34>>
\* 'Content-Type: audio/webm'
StrPartType ==
    <<67, 111, 110, 116, 101, 110, 116, 45, 84, 121, 112, 101, 58, 32, 97,
      117, 100, 105, 111, 47, 119, 101, 98, 109>>
\* 'multipart/form-data; boundary='
StrMultipartHeader ==
    <<109, 117, 108, 116, 105, 112, 97, 114, 116, 47, 102, 111, 114, 109,
      45, 100, 97, 116, 97, 59, 32, 98, 111, 117, 110, 100, 97, 114, 121,
      61>>
\* UTF-8 of a string whose characters are below U+0800
RECURSIVE Utf8Encode(_)
Utf8Encode(str) ==
    IF str = <<>> THEN <<>>
    ELSE LET c == Head(str)
         IN  (IF c < 128 THEN <<c>>
              ELSE <<192 + (c \div 64), 128 + (c % 64)>>)
             \o Utf8Encode(Tail(str))

EncodeField(boundary, name, value) ==
    StrDashDash \o boundary \o StrCRLF
    \o StrDispositionName \o Utf8Encode(name) \o <<Quote>> \o StrCRLF
    \o StrCRLF \o Utf8Encode(value) \o StrCRLF

EncodeFile(boundary, name, filename, data) ==
    StrDashDash \o boundary \o StrCRLF
    \o StrDispositionName \o Utf8Encode(name)
    \o StrThenFilename \o Utf8Encode(filename) \o <<Quote>> \o StrCRLF
    \o StrPartType \o StrCRLF
    \o StrCRLF \o data \o StrCRLF

RECURSIVE EncodeFields(_, _, _)
EncodeFields(boundary, formFields, names) ==
    IF names = <<>> THEN <<>>
    ELSE (IF Head(names) \in DOMAIN formFields
          THEN EncodeField(boundary, Head(names), formFields[Head(names)])
          ELSE <<>>)
         \o EncodeFields(boundary, formFields, Tail(names))

FieldOrder == <<StrDuration, StrQuestion, StrPart>>

\* the body of a form with the given field map and, when file.present,
\* the file
EncodeForm(boundary, formFields, file) ==
    (IF file.present
     THEN EncodeFile(boundary, file.name, file.filename, file.data)
     ELSE <<>>)
    \o EncodeFields(boundary, formFields, FieldOrder)
    \o StrDashDash \o boundary \o StrDashDash \o StrCRLF

MultipartHeader(boundary) == [present |-> TRUE, s |-> StrMultipartHeader \o boundary]

----------------------------------------------------------------------------
(* Analyzer harness: analyzeMetrics applied to bounded inputs *)

MaxWords == 3

\* 'the', 'um', 'Um '
TextThe == <<116, 104, 101>>
TextUm == <<117, 109>>
TextUmSpace == <<85, 109, 32>>

\* the words the transcription collaborator may report; the last two are
\* malformed entries (no text, no timing)
WordPool ==
    { TimedWord(TRUE, TextThe, Num(0), Num(100)),
      TimedWord(TRUE, TextUm, Num(100), Num(200)),
      TimedWord(TRUE, TextThe, Num(400), Num(500)),
      TimedWord(TRUE, TextUmSpace, Num(401), Num(500)),
      TimedWord(TRUE, TextThe, Num(701), Num(800)),
      TimedWord(TRUE, TextThe, Num(900), Num(1000)),
      TimedWord(FALSE, <<>>, Num(0), Num(100)),
      TimedWord(TRUE, TextThe, Undef, Undef) }

WordLists == UNION { [1..n -> WordPool] : n \in 0..MaxWords }

WordsArgs ==
    { [present |-> TRUE, list |-> l] : l \in WordLists }
    \cup { [present |-> FALSE, list |-> <<>>] }

DurationArgs ==
    { Undef, NaN, Num(0), Num(300), Num(1000), Num(2000), Num(-1000) }

NoMetrics ==
    [ kind |-> "none",
      wordsPerMinute |-> Undef,
      averagePauseDuration |-> Undef,
      longestPause |-> Undef,
      fillerWordCount |-> Undef,
      pauseCount |-> Undef,
      pacingVariation |-> "none" ]

MInit ==
    /\ mPc = "input"
    /\ mWords \in WordsArgs
    /\ mDuration \in DurationArgs
    /\ mResult = NoMetrics

MIdle ==
    /\ mPc = "idle"
    /\ mWords = [present |-> FALSE, list |-> <<>>]
    /\ mDuration = Undef
    /\ mResult = NoMetrics

AnalyzeStep ==
    /\ mPc = "input"
    /\ mResult' = analyzeMetrics(mWords, mDuration)
    /\ mPc' = "done"
    /\ UNCHANGED <<mWords, mDuration>>
    /\ UNCHANGED <<pvars, hvars>>


----------------------------------------------------------------------------
(* Decoder harness: parseMultipartForm applied to encoded forms *)

MaxContent == 3

\* 'X'
FormBoundary == <<88>>

\* CR, LF, '-', 'X', 0xE9
ContentBytes == {13, 10, 45, 88, 233}

FileContents == UNION { [1..n -> ContentBytes] : n \in 0..MaxContent }

\* 'a.webm'
StrFilename == <<97, 46, 119, 101, 98, 109>>

\* '', 'A', 'e' with an acute accent (U+00E9), 'a' CR LF 'b',
\* 'filename="x"'
FieldValues ==
    { <<>>,
      <<65>>,
      <<233>>,
      <<97, 13, 10, 98>>,
      <<102, 105, 108, 101, 110, 97, 109, 101, 61, 34, 120, 34>> }

FieldMaps ==
    UNION { [names -> FieldValues] : names \in SUBSET {StrQuestion, StrPart} }

NoParse == [ok |-> FALSE, fields |-> EmptyObject, files |-> EmptyObject]

PInit ==
    /\ pPc = "input"
    /\ pFields \in FieldMaps
    /\ pFile \in { [present |-> TRUE, name |-> StrAudio,
                     filename |-> StrFilename, data |-> d] :
                        d \in FileContents }
    /\ pResult = NoParse

ParseStep ==
    /\ pPc = "input"
    /\ pResult' = parseMultipartForm(
                     EncodeForm(FormBoundary, pFields, pFile),
                     MultipartHeader(FormBoundary))
    /\ pPc' = "done"
    /\ UNCHANGED <<pFields, pFile>>
    /\ UNCHANGED <<mvars, hvars>>

PIdle ==
    /\ pPc = "idle"
    /\ pFields = EmptyObject
    /\ pFile = [present |-> FALSE, name |-> <<>>, filename |-> <<>>,
                data |-> <<>>]
    /\ pResult = NoParse

----------------------------------------------------------------------------
(* Handler harness: one request, the collaborators' answers drawn from    *)
(* bounded sets                                                           *)

MaxReportedWords == 2

\* what the caller may put in the duration field: '', '0', '2', '1.5',
\* 'abc'
DurationFields == { <<>>, <<48>>, <<50>>, <<49, 46, 53>>, <<97, 98, 99>> }

\* 'A'
QuestionFields == { <<65>> }

RequestFieldMaps ==
    { [n \in names |-> IF n = StrDuration THEN d ELSE q] :
        names \in SUBSET {StrDuration, StrQuestion},
        d \in DurationFields, q \in QuestionFields }

NoFile == [present |-> FALSE, name |-> <<>>, filename |-> <<>>, data |-> <<>>]

AudioFile ==
    [present |-> TRUE, name |-> StrAudio, filename |-> StrFilename,
     data |-> <<26, 69, 223, 163>>]

NoJsonBody ==
    [present |-> FALSE, text |-> [kind |-> "absent", s |-> <<>>],
     strings |-> EmptyObject]

\* 'Hi ', ' '
TextValues ==
    { [kind |-> "absent", s |-> <<>>],
      [kind |-> "other", s |-> <<>>],
      [kind |-> "string", s |-> <<>>],
      [kind |-> "string", s |-> <<32>>],
      [kind |-> "string", s |-> <<72, 105, 32>>] }

JsonBodies ==
    { NoJsonBody }
    \cup { [present |-> TRUE, text |-> t, strings |-> q] :
             t \in TextValues,
             q \in { EmptyObject, [k \in {StrQuestion} |-> <<65>>] } }

\* 'application/json'
StrJsonType ==
    <<97, 112, 112, 108, 105, 99, 97, 116, 105, 111, 110, 47, 106, 115, 111,
      110>>

Request(method, contentType, buffer, streamError, body) ==
    [ method |-> method, contentType |-> contentType, buffer |-> buffer,
      streamError |-> streamError, body |-> body ]

MultipartRequests ==
    { Request("POST", MultipartHeader(FormBoundary),
              EncodeForm(FormBoundary, f, file), FALSE, NoJsonBody) :
        f \in RequestFieldMaps, file \in {NoFile, AudioFile} }
    \cup { Request("POST", [present |-> TRUE, s |-> StrMultipart],
                   EncodeForm(FormBoundary, EmptyObject, AudioFile), FALSE,
                   NoJsonBody),
           Request("POST", MultipartHeader(FormBoundary),
                   EncodeForm(FormBoundary, EmptyObject, AudioFile), TRUE,
                   NoJsonBody) }

JsonRequests ==
    { Request("POST", h, <<>>, FALSE, b) :
        h \in { [present |-> TRUE, s |-> StrJsonType],
                [present |-> FALSE, s |-> <<>>] },
        b \in JsonBodies }

OtherRequests ==
    { Request(m, [present |-> TRUE, s |-> StrJsonType], <<>>, FALSE,
              NoJsonBody) : m \in {"OPTIONS", "GET"} }

Requests == MultipartRequests \cup JsonRequests \cup OtherRequests

ReportedWordPool ==
    { TimedWord(TRUE, TextThe, Num(0), Num(100)),
      TimedWord(TRUE, TextUm, Num(900), Num(1000)),
      TimedWord(FALSE, <<>>, Num(0), Num(100)) }

ReportedWordLists ==
    UNION { [1..n -> ReportedWordPool] : n \in 0..MaxReportedWords }

\* 'hi'
TranscriptionResults ==
    { [text |-> <<104, 105>>, words |-> w, duration |-> d] :
        w \in { [present |-> TRUE, list |-> l] : l \in ReportedWordLists }
              \cup { [present |-> FALSE, list |-> <<>>] },
        d \in { Undef, Num(0), Num(2000) } }

CollaboratorErrors == { PlainError, ErrorWith(401), ErrorWith(429) }

\* the message content of the completion: absent, or one of the texts
\*   ' {"overallBand":6.5,"scores":{"fluencyCoherence":7,
\*      "lexicalResource":6,"grammaticalRange":6.5,"pronunciation":6},
\*      "feedback":{"summary":"ok","nextBandTips":["a"]}}' LF
\*   '{"overallBand": 7'   (truncated)
\*   'Sorry', 'null', '42', '{}', '  ', ''
\*   '{"overallBand":7}'
Contents ==
    { [present |-> FALSE, s |-> <<>>] }
    \cup { [present |-> TRUE, s |-> t] :
             t \in {
    <<32, 123, 34, 111, 118, 101, 114, 97, 108, 108, 66, 97, 110, 100, 34,
      58, 54, 46, 53, 44, 34, 115, 99, 111, 114, 101, 115, 34, 58, 123, 34,
      102, 108, 117, 101, 110, 99, 121, 67, 111, 104, 101, 114, 101, 110,
      99, 101, 34, 58, 55, 44, 34, 108, 101, 120, 105, 99, 97, 108, 82, 101,
      115, 111, 117, 114, 99, 101, 34, 58, 54, 44, 34, 103, 114, 97, 109,
      109, 97, 116, 105, 99, 97, 108, 82, 97, 110, 103, 101, 34, 58, 54, 46,
      53, 44, 34, 112, 114, 111, 110, 117, 110, 99, 105, 97, 116, 105, 111,
      110, 34, 58, 54, 125, 44, 34, 102, 101, 101, 100, 98, 97, 99, 107, 34,
      58, 123, 34, 115, 117, 109, 109, 97, 114, 121, 34, 58, 34, 111, 107,
      34, 44, 34, 110, 101, 120, 116, 66, 97, 110, 100, 84, 105, 112, 115,
      34, 58, 91, 34, 97, 34, 93, 125, 125, 10>>,
    <<123, 34, 111, 118, 101, 114, 97, 108, 108, 66, 97, 110, 100, 34, 58,
      32, 55>>,
    <<83, 111, 114, 114, 121>>,
    <<110, 117, 108, 108>>,
    <<52, 50>>,
    <<123, 125>>,
    <<32, 32>>,
    <<>>,
    <<123, 34, 111, 118, 101, 114, 97, 108, 108, 66, 97, 110, 100, 34, 58,
      55, 125>> } }

NoTranscription ==
    [returned |-> FALSE, text |-> <<>>, words |-> <<>>, duration |-> Undef]

NoContent == [returned |-> FALSE, present |-> FALSE, s |-> <<>>]

NoFailure == [happened |-> FALSE, by |-> "none", code |-> 0]

HInit ==
    /\ pc = "start"
    /\ req \in Requests
    /\ apiKeySet \in BOOLEAN
    /\ fields = EmptyObject
    /\ files = EmptyObject
    /\ transcription = NoTranscription
    /\ duration = Undef
    /\ metrics = NoMetrics
    /\ genContent = NoContent
    /\ status = 0
    /\ resBody = NoBody
    /\ calls = <<>>
    /\ failed = NoFailure

HIdle ==
    /\ pc = "idle"
    /\ req = Request("NONE", [present |-> FALSE, s |-> <<>>], <<>>, FALSE,
                     NoJsonBody)
    /\ apiKeySet = TRUE
    /\ fields = EmptyObject
    /\ files = EmptyObject
    /\ transcription = NoTranscription
    /\ duration = Undef
    /\ metrics = NoMetrics
    /\ genContent = NoContent
    /\ status = 0
    /\ resBody = NoBody
    /\ calls = <<>>
    /\ failed = NoFailure

----------------------------------------------------------------------------
(* Specifications *)

MNext == AnalyzeStep

MetricsInit == MInit /\ PIdle /\ HIdle

SpecMetrics == MetricsInit /\ [][MNext]_vars

PNext == ParseStep

MultipartInit == PInit /\ MIdle /\ HIdle

SpecMultipart == MultipartInit /\ [][PNext]_vars

Init == HInit /\ MIdle /\ PIdle

Next ==
    \/ Receive
    \/ \E t \in TranscriptionResults : TranscriptionResolves(t)
    \/ \E e \in CollaboratorErrors : TranscriptionRejects(e)
    \/ \E c \in Contents : GenerationResolves(c)
    \/ \E e \in CollaboratorErrors : GenerationRejects(e)

Spec == Init /\ [][Next]_vars

----------------------------------------------------------------------------
(* Properties of analyzeMetrics *)

AnalyzerDone == mPc = "done"

NonEmptyWords == mWords.present /\ mWords.list /= <<>>

\* every entry carries a text, as a TimedWord does
WordsHaveText == \A i \in 1..Len(mWords.list) : mWords.list[i].hasWord

\* the adjacent pairs of l whose gap is strictly above 0.2 s
GapIndexes(l) ==
    { i \in 2..Len(l) :
        /\ IsNum(l[i].start)
        /\ IsNum(l[i - 1].end)
        /\ l[i].start.v - l[i - 1].end.v > 200 }

\* the adjacent pairs of l whose gap is exactly 0.2 s
ExactGapIndexes(l) ==
    { i \in 2..Len(l) :
        /\ IsNum(l[i].start)
        /\ IsNum(l[i - 1].end)
        /\ l[i].start.v - l[i - 1].end.v = 200 }

\* C3: for every non-empty word sequence, analyzeMetrics called with
\* duration = 0 returns wordsPerMinute = 0.
C3_ZeroDurationGivesZeroWpm ==
    (AnalyzerDone /\ NonEmptyWords /\ WordsHaveText /\ mDuration = Num(0))
        => mResult.wordsPerMinute = Num(0)

\* C4: analyzeMetrics is total: for every input, malformed entries and a
\* zero or absent duration included, it returns without raising and the
\* wordsPerMinute it returns is a non-negative integer.
C4_AnalyzerTotal ==
    AnalyzerDone =>
        /\ mResult.kind = "ok"
        /\ IsNum(mResult.wordsPerMinute)
        /\ mResult.wordsPerMinute.v >= 0

\* C5: for an empty or absent word sequence analyzeMetrics returns the
\* canonical value: wordsPerMinute 0, pacingVariation unknown, and
\* fillerWordCount, pauseCount, average pause and longest pause all
\* present and 0, whatever the duration.
C5_EmptyGivesCanonicalZero ==
    (AnalyzerDone /\ ~NonEmptyWords) =>
        /\ mResult.kind = "ok"
        /\ mResult.wordsPerMinute = Num(0)
        /\ mResult.pacingVariation = "unknown"
        /\ mResult.fillerWordCount = Num(0)
        /\ mResult.pauseCount = Num(0)
        /\ mResult.averagePauseDuration = Num(0)
        /\ mResult.longestPause = Num(0)

\* C9: for every non-empty word sequence, pauseCount is the number of
\* adjacent pairs whose gap start - previous end is strictly above 0.2 s;
\* a gap of exactly 0.2 s is not counted and fewer than two words give 0.
C9_PauseCountIsStrictGaps ==
    (AnalyzerDone /\ NonEmptyWords /\ WordsHaveText) =>
        mResult.pauseCount = Num(Cardinality(GapIndexes(mWords.list)))

\* a sequence with one gap of exactly 0.2 s and one larger gap has been
\* analyzed and one pause was counted
C9_Witness ==
    /\ AnalyzerDone /\ NonEmptyWords /\ WordsHaveText
    /\ ExactGapIndexes(mWords.list) /= {}
    /\ GapIndexes(mWords.list) /= {}
    /\ mResult.pauseCount = Num(1)

\* wordsPerMinute as the specification defines it: 0 when the duration is
\* 0, round(wordCount / duration * 60) otherwise
DefinedWpm(n, seconds) ==
    IF seconds.v = 0 THEN 0 ELSE RoundDiv(60000 * n, seconds.v)

DefinedPacing(pauseCount, wordCount, wpm) ==
    IF 10 * pauseCount > 3 * wordCount THEN "halting"
    ELSE IF 10 * pauseCount < wordCount /\ wpm > 150 THEN "rushed"
    ELSE "steady"

\* C10: for every non-empty word sequence and every duration, 0 included,
\* pacingVariation is halting when pauseCount > 0.3 * wordCount, otherwise
\* rushed when pauseCount < 0.1 * wordCount and wordsPerMinute > 150,
\* otherwise steady, with wordsPerMinute 0 when the duration is 0.
C10_PacingFirstMatchWins ==
    (/\ AnalyzerDone /\ NonEmptyWords /\ WordsHaveText
     /\ IsNum(mDuration) /\ mDuration.v >= 0) =>
        mResult.pacingVariation =
            DefinedPacing(Cardinality(GapIndexes(mWords.list)),
                          Len(mWords.list),
                          DefinedWpm(Len(mWords.list), mDuration))

----------------------------------------------------------------------------
(* Properties of parseMultipartForm *)

DecoderDone == pPc = "done"

\* C6: a field map and a file encoded as multipart/form-data with a
\* boundary that does not occur in the content decode to fields equal to
\* the original field values and to file data equal byte for byte to the
\* original content.
C6_MultipartRoundTrip ==
    (/\ DecoderDone
     /\ ~Includes(pFile.data, FormBoundary)
     /\ \A n \in DOMAIN pFields : ~Includes(pFields[n], FormBoundary)) =>
        /\ pResult.ok
        /\ pResult.fields = pFields
        /\ pFile.name \in DOMAIN pResult.files
        /\ pResult.files[pFile.name].data = pFile.data

----------------------------------------------------------------------------
(* Properties of the handler *)

Answered == pc = "done"

\* v[key] for a JSON object v: the last member named key, JSON null
\* standing for an absent one
JsonGet(v, key) ==
    LET at == { i \in 1..Len(v.kids) : v.kids[i].key = key }
    IN  IF v.t = "object" /\ at /= {}
        THEN v.kids[CHOOSE i \in at : \A j \in at : j <= i].val
        ELSE JsonNull

\* the band-score schema: overallBand, the four sub-scores and feedback
SchemaConformant(v) ==
    /\ v.t = "object"
    /\ JsonGet(v, StrOverallBand).t = "number"
    /\ JsonGet(v, StrScores).t = "object"
    /\ \A k \in { StrFluencyCoherence, StrLexicalResource,
                  StrGrammaticalRange, StrPronunciation } :
          JsonGet(JsonGet(v, StrScores), k).t = "number"
    /\ JsonGet(v, StrFeedback).t = "object"

\* C1: once the inputs were valid and the collaborator calls returned, a
\* text from the generation collaborator that cannot be parsed as JSON is
\* answered with status 200 and ieltsScores equal to the fallback
\* document, on the audio branch and on the text branch.
C1_UnparsableTextGivesFallback ==
    (/\ Answered
     /\ genContent.returned
     /\ genContent.present
     /\ ~JsonParse(genContent.s).ok) =>
        /\ status = 200
        /\ resBody.kind = "feedback"
        /\ resBody.ieltsScores = FallbackDocument

\* C2: on every request answered with status 200 the ieltsScores of the
\* body carry the band-score schema or are the fallback document; valid
\* JSON that violates the schema and absent or empty content are replaced
\* by the fallback document.
C2_OkBodyIsSchemaConformant ==
    (status = 200 /\ resBody.kind = "feedback") =>
        \/ resBody.ieltsScores = FallbackDocument
        \/ SchemaConformant(resBody.ieltsScores)

\* the duration the specification selects: the duration field when it is
\* present and parses as a float, else the duration the collaborator
\* reported, else 0
DefinedDuration(formFields, reported) ==
    IF StrDuration \in DOMAIN formFields
       /\ ParseFloat(formFields[StrDuration]).k /= "nan"
    THEN ParseFloat(formFields[StrDuration])
    ELSE IF IsNum(reported) THEN reported ELSE Num(0)

\* C7: on the audio branch the duration handed to analyzeMetrics is the
\* duration field when present and parseable as a float, otherwise the
\* duration the transcription collaborator reported, otherwise 0; never
\* a not-a-number value.
C7_DurationSelection ==
    transcription.returned =>
        duration = DefinedDuration(fields, transcription.duration)

RECURSIVE CountOf(_, _)
CountOf(seq, x) ==
    IF seq = <<>> THEN 0
    ELSE (IF Head(seq) = x THEN 1 ELSE 0) + CountOf(Tail(seq), x)

C8_CallsOrdered ==
    /\ CountOf(calls, "transcription") <= 1
    /\ CountOf(calls, "generation") <= 1
    /\ (IsMultipart(req) /\ CountOf(calls, "generation") > 0) =>
          /\ calls = <<"transcription", "generation">>
          /\ transcription.returned
    /\ (~IsMultipart(req)) => CountOf(calls, "transcription") = 0

C8_FailureAnswered ==
    failed.happened =>
        /\ Answered
        /\ resBody.kind = "error"
        /\ status = (IF failed.code /= 0 THEN failed.code ELSE 500)
        /\ calls[Len(calls)] = failed.by

\* C8: within one request the transcription collaborator and the
\* generation collaborator are each called at most once, on the audio
\* branch generation is called only after transcription returned, and
\* once a collaborator call fails no further call is made and the request
\* ends with the collaborator's status code if it reported one, else 500.
C8_SequentialNoRetry ==
    /\ [](C8_CallsOrdered /\ C8_FailureAnswered)
    /\ [][failed.happened => calls' = calls]_vars

\* the generation call of an audio request failed with status 429 after
\* the transcription call had returned, and the request was answered
C8_Witness ==
    /\ Answered
    /\ failed.happened /\ failed.by = "generation" /\ failed.code = 429
    /\ calls = <<"transcription", "generation">>
    /\ status = 429

====
